---------------------------- MODULE Spec2Model ----------------------------
(***************************************************************************)
(* Dark-channel-prior dehazing (src/src/main.rs): dark_channel,            *)
(* get_atmospheric, transmission_map and reconstruct, run in the order of  *)
(* main().                                                                 *)
(*                                                                         *)
(* u8 and u32 values are integers.  An f32 value is <<s, m, e>> standing   *)
(* for (-1)^s * m * 2^e, with m = 0 (zero) or 2^23 <= m < 2^24 (a normal   *)
(* number); every f32 operation is the exact result rounded to nearest,    *)
(* ties to even, as IEEE 754 binary32 does.  Subnormals, infinities and    *)
(* NaN are outside the values the modelled inputs produce.  All            *)
(* intermediate integers stay below 2^31.                                  *)
(***************************************************************************)
EXTENDS Integers, Sequences, FiniteSets

(***************************************************************************)
(* Single-precision arithmetic                                             *)
(***************************************************************************)
Pow2(k) == 2 ^ k

RECURSIVE BitLen(_)
BitLen(n) == IF n = 0 THEN 0 ELSE 1 + BitLen(n \div 2)

F32Zero == <<0, 0, 0>>

\* The f32 nearest to (-1)^s * (M + f) * 2^E, where 0 <= f < 1 and f > 0
\* iff sticky = 1 (bits below M's last one); with sticky = 1, M has at
\* least 25 bits.
F32Pack(s, M, E, sticky) ==
    IF M = 0 THEN F32Zero
    ELSE LET k == BitLen(M) IN
         IF k <= 24 THEN <<s, M * Pow2(24 - k), E - (24 - k)>>
         ELSE LET sh   == k - 24
                  q    == M \div Pow2(sh)
                  r    == M % Pow2(sh)
                  half == Pow2(sh - 1)
                  up   == \/ r > half
                          \/ r = half /\ sticky = 1
                          \/ r = half /\ sticky = 0 /\ q % 2 = 1
                  q2   == IF up THEN q + 1 ELSE q
              IN IF q2 = Pow2(24) THEN <<s, Pow2(23), E + sh + 1>>
                 ELSE <<s, q2, E + sh>>

\* `n as f32` for an integer 0 <= n < 2^24 (exact).
F32FromInt(n) == F32Pack(0, n, 0, 0)

F32Neg(a) == IF a[2] = 0 THEN a ELSE <<1 - a[1], a[2], a[3]>>

\* |a| < |b|
F32MagLt(a, b) ==
    IF a[2] = 0 THEN b[2] # 0
    ELSE IF b[2] = 0 THEN FALSE
    ELSE a[3] < b[3] \/ (a[3] = b[3] /\ a[2] < b[2])

\* a < b
F32Lt(a, b) ==
    IF a[1] = 0 /\ b[1] = 0 THEN F32MagLt(a, b)
    ELSE IF a[1] = 1 /\ b[1] = 1 THEN F32MagLt(b, a)
    ELSE a[1] = 1 /\ (a[2] # 0 \/ b[2] # 0)

\* f32::max and f32::clamp
F32Max(a, b) == IF F32Lt(a, b) THEN b ELSE a
F32Clamp(a, lo, hi) == IF F32Lt(a, lo) THEN lo ELSE IF F32Lt(hi, a) THEN hi ELSE a

\* |big| + |small| and |big| - |small| with |big| >= |small|, both nonzero,
\* carried with 5 guard bits and a sticky bit.
F32MagAdd(s, big, small, subtract) ==
    LET d      == big[3] - small[3]
        B      == big[2] * 32
        S0     == small[2] * 32
        S      == IF d >= 30 THEN 0 ELSE S0 \div Pow2(d)
        sticky == IF d >= 30 THEN 1 ELSE IF S0 % Pow2(d) # 0 THEN 1 ELSE 0
    IN IF subtract
       THEN F32Pack(s, B - S - sticky, big[3] - 5, sticky)
       ELSE F32Pack(s, B + S, big[3] - 5, sticky)

F32Add(a, b) ==
    IF a[2] = 0 THEN b
    ELSE IF b[2] = 0 THEN a
    ELSE IF a[1] = b[1]
         THEN IF F32MagLt(a, b) THEN F32MagAdd(a[1], b, a, FALSE)
                                ELSE F32MagAdd(a[1], a, b, FALSE)
         ELSE IF F32MagLt(a, b) THEN F32MagAdd(b[1], b, a, TRUE)
              ELSE IF F32MagLt(b, a) THEN F32MagAdd(a[1], a, b, TRUE)
              ELSE F32Zero

F32Sub(a, b) == F32Add(a, F32Neg(b))

\* The 48-bit product of the mantissas from 12-bit halves.
F32Mul(a, b) ==
    IF a[2] = 0 \/ b[2] = 0 THEN F32Zero
    ELSE LET a1  == a[2] \div 4096
             a0  == a[2] % 4096
             b1  == b[2] \div 4096
             b0  == b[2] % 4096
             mid == a1 * b0 + a0 * b1
             low == (mid % 4096) * 4096 + a0 * b0
             lo  == low % Pow2(24)
             hi  == a1 * b1 + mid \div 4096 + low \div Pow2(24)
         IN F32Pack((a[1] + b[1]) % 2, hi * 64 + lo \div Pow2(18),
                    a[3] + b[3] + 18, IF lo % Pow2(18) # 0 THEN 1 ELSE 0)

\* Long division: <<quotient, remainder>> of r * 2^n by d, bit by bit.
RECURSIVE F32DivBits(_, _, _, _)
F32DivBits(q, r, d, n) ==
    IF n = 0 THEN <<q, r>>
    ELSE IF 2 * r >= d THEN F32DivBits(2 * q + 1, 2 * r - d, d, n - 1)
                       ELSE F32DivBits(2 * q, 2 * r, d, n - 1)

\* a / b for b # 0.
F32Div(a, b) ==
    IF a[2] = 0 THEN F32Zero
    ELSE LET qr == F32DivBits(a[2] \div b[2], a[2] % b[2], b[2], 26)
         IN F32Pack((a[1] + b[1]) % 2, qr[1], a[3] - b[3] - 26,
                    IF qr[2] # 0 THEN 1 ELSE 0)

\* f32::round (half away from zero) of a >= 0, as an integer capped at 256.
F32Round(a) ==
    IF a[2] = 0 \/ a[1] = 1 THEN 0
    ELSE IF a[3] >= 0 THEN (IF a[3] >= 7 THEN 256 ELSE a[2] * Pow2(a[3]))
    ELSE IF -a[3] >= 26 THEN 0
    ELSE LET sh == -a[3]
             q  == a[2] \div Pow2(sh)
             r  == a[2] % Pow2(sh)
         IN IF q >= 256 THEN 256 ELSE IF r >= Pow2(sh - 1) THEN q + 1 ELSE q

\* Truncation toward zero, as an integer capped at 2^24; negative gives 0.
F32Trunc(a) ==
    IF a[2] = 0 \/ a[1] = 1 THEN 0
    ELSE IF a[3] >= 0 THEN (IF a[3] >= 1 THEN Pow2(24) ELSE a[2])
    ELSE IF -a[3] >= 25 THEN 0
    ELSE a[2] \div Pow2(-a[3])

\* `f as u8`: truncation toward zero, saturating at 0 and 255.
AsU8(a) == LET n == F32Trunc(a) IN IF n > 255 THEN 255 ELSE n

\* The f32 literal n/d (n >= 0, d > 0 decimal digits of the source literal).
F32Lit(n, d) == F32Div(F32FromInt(n), F32FromInt(d))

(***************************************************************************)
(* The image (a DynamicImage read through get_pixel, which yields RGBA)    *)
(***************************************************************************)
\* Pixel (x, y) as <<r, g, b, a>>; px is row-major, 1-based.
get_pixel(image, x, y) == image.px[y * image.width + x + 1]

SetMin(S) == CHOOSE m \in S : \A n \in S : m <= n
SetMax(S) == CHOOSE m \in S : \A n \in S : m >= n
Max3(p) == SetMax({p[1], p[2], p[3]})

(***************************************************************************)
(* dark_channel                                                            *)
(***************************************************************************)
\* The coordinates the two patch loops reach for output pixel (x, y): the
\* (xp, yp) not skipped by the `continue` tests.
PatchCoords(image, patch_size, x, y) ==
    LET hx == x + patch_size \div 2
        hy == y + patch_size \div 2
    IN { <<hx - q[1], hy - q[2]>> :
           q \in { r \in (0 .. patch_size - 1) \X (0 .. patch_size - 1) :
                     /\ ~(r[2] > hy \/ hy - r[2] >= image.height)
                     /\ ~(r[1] > hx \/ hx - r[1] >= image.width) } }

\* p.channels() of the Rgba pixel get_pixel returns: all four samples.
Channels(p) == {p[1], p[2], p[3], p[4]}

\* `minimum` after the patch loops, starting from 255.
PatchMinimum(image, patch_size, x, y) ==
    SetMin({255} \cup UNION { Channels(get_pixel(image, c[1], c[2])) :
                                c \in PatchCoords(image, patch_size, x, y) })

dark_channel(image, patch_size) ==
    IF image.width * image.height = 0 THEN << >>
    ELSE [i \in 1 .. image.width * image.height |->
            PatchMinimum(image, patch_size,
                         (i - 1) % image.width, (i - 1) \div image.width)]

(***************************************************************************)
(* transmission_map                                                        *)
(***************************************************************************)
\* Variant: the product rounded to the nearest integer instead of truncated.
TransmissionOf_Rounds(d, omega) ==
    LET n == F32Round(F32Mul(F32FromInt(d), omega))
    IN 255 - (IF n > 255 THEN 255 ELSE n)

TransmissionOf(d, omega) == 255 - AsU8(F32Mul(F32FromInt(d), omega))

transmission_map(dark_map, omega) ==
    [i \in 1 .. Len(dark_map) |-> TransmissionOf(dark_map[i], omega)]

(***************************************************************************)
(* get_atmospheric                                                         *)
(***************************************************************************)
\* Variant: the comparator's arguments not swapped, an ascending sort.
RECURSIVE SortedAsc(_, _)
SortedAsc(dark_map, rest) ==
    IF rest = {} THEN << >>
    ELSE LET low  == SetMin({dark_map[i + 1] : i \in rest})
             next == SetMin({i \in rest : dark_map[i + 1] = low})
         IN <<next>> \o SortedAsc(dark_map, rest \ {next})

\* The indices (0-based) of dark_map in the order of the stable sort by
\* value, descending.
RECURSIVE SortedDesc(_, _)
SortedDesc(dark_map, rest) ==
    IF rest = {} THEN << >>
    ELSE LET top  == SetMax({dark_map[i + 1] : i \in rest})
             next == SetMin({i \in rest : dark_map[i + 1] = top})
         IN <<next>> \o SortedDesc(dark_map, rest \ {next})

\* Variant: the product rounded to the nearest integer instead of truncated.
TakeCount_Rounds(len, a_proportion) ==
    F32Round(F32Mul(F32FromInt(len), a_proportion))

\* (dark_map.len() as f32 * a_proportion) as usize
TakeCount(len, a_proportion) == F32Trunc(F32Mul(F32FromInt(len), a_proportion))

brightest(dark_map, a_proportion) ==
    LET sorted == SortedDesc(dark_map, 0 .. Len(dark_map) - 1)
        n      == TakeCount(Len(dark_map), a_proportion)
    IN SubSeq(sorted, 1, IF n < Len(sorted) THEN n ELSE Len(sorted))

\* Variant: a candidate as intense as the running best replaces it.
Brighter_OrEqual(intensity, best_i) == intensity >= best_i

\* The comparison that replaces the running best.
Brighter(intensity, best_i) == intensity > best_i

\* The loop over the candidates from position k on.
RECURSIVE AtmosphericScan(_, _, _, _, _)
AtmosphericScan(cands, k, image, best_i, best_px) ==
    IF k > Len(cands) THEN best_px
    ELSE LET i  == cands[k]
             px == get_pixel(image, i % image.width, i \div image.width)
             intensity == Max3(px)
         IN IF Brighter(intensity, best_i)
            THEN AtmosphericScan(cands, k + 1, image, intensity, <<px[1], px[2], px[3]>>)
            ELSE AtmosphericScan(cands, k + 1, image, best_i, best_px)

\* Variant: the running best pixel starts black instead of white.
get_atmospheric_SeedsBlack(dark_map, image, a_proportion) ==
    AtmosphericScan(brightest(dark_map, a_proportion), 1, image, 0, <<0, 0, 0>>)

get_atmospheric(dark_map, image, a_proportion) ==
    AtmosphericScan(brightest(dark_map, a_proportion), 1, image, 0, <<255, 255, 255>>)

(***************************************************************************)
(* reconstruct                                                             *)
(***************************************************************************)
F32_255 == F32FromInt(255)
F32One  == F32FromInt(1)

\* Variant: the sample divided by 256.
floatify_By256(u) == F32Div(F32FromInt(u), F32FromInt(256))

floatify(u) == F32Div(F32FromInt(u), F32_255)

\* Variant: the scaled value truncated instead of rounded.
defloatify_Truncates(f) ==
    AsU8(F32Mul(F32Clamp(f, F32Zero, F32One), F32_255))

defloatify(f) ==
    LET n == F32Round(F32Mul(F32Clamp(f, F32Zero, F32One), F32_255))
    IN IF n > 255 THEN 255 ELSE n

\* Variant: the atmospheric light subtracted after the division instead of
\* added back.
ReconstructChannel_SubtractsLight(u, a, tb, t_0) ==
    LET atmospheric == floatify(a)
        numerator   == F32Sub(floatify(u), atmospheric)
        t           == F32Max(floatify(tb), t_0)
    IN defloatify(F32Sub(F32Div(numerator, t), atmospheric))

\* One output channel: source sample u, atmospheric sample a, transmission
\* byte tb, floor t_0.
ReconstructChannel(u, a, tb, t_0) ==
    LET atmospheric == floatify(a)
        numerator   == F32Sub(floatify(u), atmospheric)
        t           == F32Max(floatify(tb), t_0)
    IN defloatify(F32Add(F32Div(numerator, t), atmospheric))

reconstruct(image, atmospheric, t_map, t_0) ==
    IF image.width * image.height = 0 THEN << >>
    ELSE [k \in 1 .. 3 * image.width * image.height |->
            LET i == (k - 1) \div 3
                c == ((k - 1) % 3) + 1
            IN ReconstructChannel(image.px[i + 1][c], atmospheric[c],
                                  t_map[i + 1], t_0)]

(***************************************************************************)
(* main(): the constants and the four calls in order                       *)
(***************************************************************************)
PATCH_SIZE   == 5
OMEGA        == F32Lit(95, 100)
T_0          == F32Lit(1, 10)
A_PROPORTION == F32Lit(2, 1000)

VARIABLES pc, image, patch_size, omega, t_0, a_proportion,
          dark_map, atmospheric, t_map, output

vars == <<pc, image, patch_size, omega, t_0, a_proportion,
          dark_map, atmospheric, t_map, output>>

\* Bounds of the inputs explored.
MaxW     == 2
MaxH     == 2
MaxPatch == 3
MaxLen   == 3

Black  == <<0, 0, 0, 255>>
Gray   == <<100, 100, 100, 255>>
White  == <<255, 255, 255, 255>>
Tinted == <<30, 200, 90, 10>>
Palette == {Black, Gray, White, Tinted}

\* A w x h image of colour bg with the pixel at index spot (1-based) of
\* colour fg.
SpotImage(w, h, bg, fg, spot) ==
    [width |-> w, height |-> h,
     px |-> IF w * h = 0 THEN << >>
            ELSE [i \in 1 .. w * h |-> IF i = spot THEN fg ELSE bg]]

SpotImages ==
    { SpotImage(d[1], d[2], c[1], c[2], spot) :
        d \in (0 .. MaxW) \X (0 .. MaxH), c \in Palette \X Palette,
        spot \in 1 .. MaxW * MaxH }

\* The 4 x 4 image with a 2 x 2 white block in the corner (cx, cy), each 0
\* or 1, on gray.
CornerImage(cx, cy) ==
    [width |-> 4, height |-> 4,
     px |-> [i \in 1 .. 16 |->
               LET x == (i - 1) % 4
                   y == (i - 1) \div 4
               IN IF x \div 2 = cx /\ y \div 2 = cy THEN White ELSE Gray]]

CornerImages == { CornerImage(c[1], c[2]) : c \in {0, 1} \X {0, 1} }

PatchSizes == (0 .. MaxPatch) \cup {PATCH_SIZE}
Fractions  == {A_PROPORTION, F32Lit(1, 4), F32One}
HazeParams == {<<OMEGA, T_0>>, <<F32Zero, T_0>>, <<F32Zero, F32Lit(1, 2)>>}

Init ==
    /\ pc = "dark_channel"
    /\ \/ /\ image \in SpotImages
          /\ patch_size \in PatchSizes
          /\ a_proportion \in Fractions
          /\ \E p \in HazeParams : omega = p[1] /\ t_0 = p[2]
       \/ /\ image \in CornerImages
          /\ patch_size = 3
          /\ a_proportion = F32Lit(1, 4)
          /\ omega = OMEGA /\ t_0 = T_0
       \/ /\ image = SpotImage(1, 1, Gray, Gray, 1)
          /\ patch_size \in PatchSizes
          /\ a_proportion \in {F32Zero, F32Lit(3, 2)}
          /\ omega = F32Neg(F32Lit(1, 2))
          /\ t_0 \in {F32One, F32Lit(3, 2)}
    /\ dark_map = << >>
    /\ atmospheric = << >>
    /\ t_map = << >>
    /\ output = << >>

\* get_pixel panics outside the image, and `%` panics on a zero width.
AtmosphericPanics ==
    \E k \in DOMAIN brightest(dark_map, a_proportion) :
        LET i == brightest(dark_map, a_proportion)[k]
        IN image.width = 0 \/ i \div image.width >= image.height

\* Indexing transmission_map panics past its end.
ReconstructPanics == Len(t_map) < image.width * image.height

DarkChannel ==
    /\ pc = "dark_channel"
    /\ dark_map' = dark_channel(image, patch_size)
    /\ pc' = "get_atmospheric"
    /\ UNCHANGED <<image, patch_size, omega, t_0, a_proportion,
                   atmospheric, t_map, output>>

GetAtmospheric ==
    /\ pc = "get_atmospheric"
    /\ IF AtmosphericPanics
       THEN pc' = "panic" /\ UNCHANGED atmospheric
       ELSE /\ atmospheric' = get_atmospheric(dark_map, image, a_proportion)
            /\ pc' = "transmission_map"
    /\ UNCHANGED <<image, patch_size, omega, t_0, a_proportion,
                   dark_map, t_map, output>>

TransmissionMap ==
    /\ pc = "transmission_map"
    /\ t_map' = transmission_map(dark_map, omega)
    /\ pc' = "reconstruct"
    /\ UNCHANGED <<image, patch_size, omega, t_0, a_proportion,
                   dark_map, atmospheric, output>>

Reconstruct ==
    /\ pc = "reconstruct"
    /\ IF ReconstructPanics
       THEN pc' = "panic" /\ UNCHANGED output
       ELSE /\ output' = reconstruct(image, atmospheric, t_map, t_0)
            /\ pc' = "done"
    /\ UNCHANGED <<image, patch_size, omega, t_0, a_proportion,
                   dark_map, atmospheric, t_map>>

Next == DarkChannel \/ GetAtmospheric \/ TransmissionMap \/ Reconstruct

Spec == Init /\ [][Next]_vars

(***************************************************************************)
(* Each stage on inputs of its own                                         *)
(***************************************************************************)
NoImage == [width |-> 0, height |-> 0, px |-> << >>]

\* Every image of at most MaxLen pixels over a set of colours.
ImagesOver(colours) ==
    { [width |-> d[1], height |-> d[2], px |-> p] :
        d \in { e \in (1 .. MaxLen) \X (1 .. MaxLen) : e[1] * e[2] <= MaxLen },
        p \in UNION { [1 .. n -> colours] : n \in 1 .. MaxLen } }

Sized(images) == { im \in images : Len(im.px) = im.width * im.height }

\* transmission_map: every one-entry dark map, and the short ones over a
\* few levels.
DarkLevels == {0, 100, 255}
DarkMaps ==
    { <<d>> : d \in 0 .. 255 } \cup
    UNION { [1 .. n -> DarkLevels] : n \in 0 .. MaxLen }
Omegas == {OMEGA, F32Lit(1, 2), F32Lit(53, 100), F32Lit(999, 1000),
           F32Lit(1, 1000)}

InitTmap ==
    /\ pc = "transmission_map"
    /\ image = NoImage
    /\ patch_size = PATCH_SIZE
    /\ a_proportion = A_PROPORTION
    /\ t_0 = T_0
    /\ omega \in Omegas
    /\ dark_map \in DarkMaps
    /\ atmospheric = << >>
    /\ t_map = << >>
    /\ output = << >>

SpecTmap == InitTmap /\ [][TransmissionMap]_vars

\* get_atmospheric: every dark map over two levels with every image of its
\* size over four colours, two of them equally intense; one ten-pixel
\* image; and a dark map longer than its image.
Red == <<200, 10, 10, 255>>
AtmosColours == {Black, Gray, Tinted, Red}
AtmosFractions == {A_PROPORTION, F32Lit(1, 4), F32Lit(1, 2), F32Lit(7, 10), F32One}
TenImage == [width |-> 5, height |-> 2,
             px |-> [i \in 1 .. 10 |-> IF i % 3 = 0 THEN Red ELSE Gray]]

InitAtmos ==
    /\ pc = "get_atmospheric"
    /\ patch_size = PATCH_SIZE
    /\ omega = OMEGA
    /\ t_0 = T_0
    /\ a_proportion \in AtmosFractions
    /\ \/ /\ image \in Sized(ImagesOver(AtmosColours)) \cup {NoImage}
          /\ dark_map \in [1 .. image.width * image.height -> {100, 255}]
       \/ /\ image = TenImage
          /\ dark_map \in {[i \in 1 .. 10 |-> 100], [i \in 1 .. 10 |-> 20 * i]}
       \/ /\ image = SpotImage(1, 1, Gray, Gray, 1)
          /\ dark_map = <<100, 255>>
    /\ atmospheric = << >>
    /\ t_map = << >>
    /\ output = << >>

SpecAtmos == InitAtmos /\ [][GetAtmospheric]_vars

\* reconstruct: every image of at most MaxLen pixels over two colours, with
\* every transmission map of its size over two levels and the all-zero map.
Dim    == <<1, 100, 255, 0>>
Bluish == <<0, 8, 200, 255>>
ReconColours == {Dim, Bluish}
AtmosphericLights == {<<8, 8, 8>>, <<255, 255, 255>>, <<0, 150, 200>>}
TransmissionLevels == {160, 238}
TransmissionMaps(n) == [1 .. n -> TransmissionLevels] \cup {[i \in 1 .. n |-> 0]}
Floors == {T_0, F32Lit(1, 2), F32Lit(2, 255)}

InitRecon ==
    /\ pc = "reconstruct"
    /\ patch_size = PATCH_SIZE
    /\ omega = OMEGA
    /\ a_proportion = A_PROPORTION
    /\ t_0 \in Floors
    /\ atmospheric \in AtmosphericLights
    /\ \/ /\ image \in Sized(ImagesOver(ReconColours)) \cup {NoImage}
          /\ t_map \in TransmissionMaps(image.width * image.height)
       \/ /\ image = SpotImage(2, 1, Dim, Bluish, 1)
          /\ t_map = <<160>>
    /\ dark_map = << >>
    /\ output = << >>

SpecRecon == InitRecon /\ [][Reconstruct]_vars

(***************************************************************************)
(* Properties                                                              *)
(***************************************************************************)
AfterDark  == pc \in {"get_atmospheric", "transmission_map", "reconstruct", "done"}
AfterAtmos == pc \in {"transmission_map", "reconstruct", "done"}
AfterTmap  == pc \in {"reconstruct", "done"}

NumPixels == image.width * image.height
MinRGB(p) == SetMin({p[1], p[2], p[3]})

\* The offsets of the patch in one axis.
PatchOffsets(ps) == (0 - (ps - 1 - ps \div 2)) .. (ps \div 2)

\* The least of R, G and B over the pixels of the patch around (x, y) that
\* lie inside the image.
WindowMinRGB(x, y) ==
    SetMin({ MinRGB(get_pixel(image, x + o[1], y + o[2])) :
               o \in { q \in PatchOffsets(patch_size) \X PatchOffsets(patch_size) :
                         /\ x + q[1] \in 0 .. image.width - 1
                         /\ y + q[2] \in 0 .. image.height - 1 } })

\* C1: for an image of width and height >= 1 and a patch size >= 1, the
\* dark map has W*H entries and the entry at y*W + x is the minimum of R, G
\* and B (alpha taking no part) over the in-bounds pixels of the patch
\* around (x, y).
C1_DarkChannelIsWindowMinOfRGB ==
    (AfterDark /\ NumPixels >= 1 /\ patch_size >= 1) =>
        /\ Len(dark_map) = NumPixels
        /\ \A x \in 0 .. image.width - 1 : \A y \in 0 .. image.height - 1 :
              dark_map[y * image.width + x + 1] = WindowMinRGB(x, y)

\* C6: a stage that has run to completion was given valid input: a
\* non-empty image, patch_size >= 1, 0 < a_proportion <= 1, omega > 0,
\* t_0 < 1; on invalid input it ends in an error.
C6_InvalidInputIsRejected ==
    /\ AfterDark => (NumPixels >= 1 /\ patch_size >= 1)
    /\ AfterAtmos => (F32Lt(F32Zero, a_proportion) /\ ~F32Lt(F32One, a_proportion))
    /\ AfterTmap => F32Lt(F32Zero, omega)
    /\ pc = "done" => F32Lt(t_0, F32One)

\* Exact arithmetic on an f32 value f = m * 2^(-s) with 0 <= f < 4096 and an
\* integer 0 <= n <= 255: n * m as <<H, L>>, n * m = H * 4096 + L.
ExactMul(n, f) ==
    <<n * (f[2] \div 4096) + (n * (f[2] % 4096)) \div 4096,
      (n * (f[2] % 4096)) % 4096>>

\* floor(n * f), in exact arithmetic.
ExactFloorMul(n, f) ==
    IF f[2] = 0 \/ f[1] = 1 \/ -f[3] - 12 > 30 THEN 0
    ELSE ExactMul(n, f)[1] \div Pow2(-f[3] - 12)

\* n * f lies below the next integer by at most n * f / 2^20.
NearNextInteger(n, f) ==
    IF f[2] = 0 \/ f[1] = 1 \/ -f[3] - 12 > 30 THEN FALSE
    ELSE LET H    == ExactMul(n, f)[1]
             L    == ExactMul(n, f)[2]
             gapH == Pow2(-f[3] - 12) - (H % Pow2(-f[3] - 12))
         IN gapH <= Pow2(18) /\ gapH * 4096 - L <= H \div 256

ValidFraction == F32Lt(F32Zero, a_proportion) /\ ~F32Lt(F32One, a_proportion)

\* The only k the image can be uniformly (k, k, k) for.
FirstSample == IF NumPixels >= 1 THEN {image.px[1][1]} ELSE {}

\* Every pixel of the image is the opaque gray (k, k, k).
UniformGray(k) ==
    /\ NumPixels >= 1
    /\ \A i \in 1 .. NumPixels : image.px[i] = <<k, k, k, 255>>

\* C7 as stated: for a constant image of colour (k, k, k), a patch size
\* >= 1 and a fraction in (0, 1], the dark map is k everywhere and the
\* atmospheric light is (k, k, k).
C7_UniformImageGivesItsColour ==
    \A k \in FirstSample :
        (UniformGray(k) /\ patch_size >= 1 /\ ValidFraction) =>
            /\ AfterDark => dark_map = [i \in 1 .. NumPixels |-> k]
            /\ AfterAtmos => atmospheric = <<k, k, k>>

\* C7 amended: the dark map is k everywhere; the atmospheric light is
\* (k, k, k) when k >= 1 and there is at least one candidate
\* (N * topFraction >= 1), and the default (255, 255, 255) when k = 0 or
\* there is none.
C7_UniformImageColourOrDefault ==
    \A k \in FirstSample :
        (UniformGray(k) /\ patch_size >= 1 /\ ValidFraction) =>
            /\ AfterDark => dark_map = [i \in 1 .. NumPixels |-> k]
            /\ (AfterAtmos /\ k >= 1 /\ ExactFloorMul(NumPixels, a_proportion) >= 1)
                  => atmospheric = <<k, k, k>>
            /\ (AfterAtmos /\ (k = 0 \/ (/\ ExactFloorMul(NumPixels, a_proportion) = 0
                                         /\ ~NearNextInteger(NumPixels, a_proportion))))
                  => atmospheric = <<255, 255, 255>>

C7_Witness ==
    /\ UniformGray(100) /\ NumPixels >= 2 /\ patch_size = 2 /\ AfterAtmos
    /\ a_proportion = F32One
    /\ atmospheric = <<100, 100, 100>>

\* C8: with omega = 0 the transmission map is 255 at every index and the
\* reconstruction returns the R, G and B of every pixel of the input, for
\* every image and every floor t_0 in (0, 1).
C8_ZeroHazeRoundTrip ==
    (omega = F32Zero /\ F32Lt(F32Zero, t_0) /\ F32Lt(t_0, F32One)) =>
        /\ AfterTmap => t_map = [i \in 1 .. NumPixels |-> 255]
        /\ pc = "done" =>
              /\ Len(output) = 3 * NumPixels
              /\ \A i \in 1 .. NumPixels : \A c \in 1 .. 3 :
                    output[3 * (i - 1) + c] = image.px[i][c]

C8_Witness ==
    /\ omega = F32Zero /\ t_0 = T_0 /\ pc = "done" /\ NumPixels = MaxW * MaxH
    /\ \E i \in 1 .. NumPixels : image.px[i] = Tinted
    /\ atmospheric # <<255, 255, 255>>
    /\ output[1] = image.px[1][1]

\* C10: on the 4 x 4 image with a 2 x 2 white corner on gray (100), with
\* patchSize = 3, omega = 0.95, t0 = 0.1 and topFraction = 0.25, the
\* atmospheric light is (255, 255, 255) and every channel of every
\* reconstructed pixel that was gray is below 100.
C10_WhiteCornerScenario ==
    (/\ image \in CornerImages /\ patch_size = 3 /\ omega = OMEGA /\ t_0 = T_0
     /\ a_proportion = F32Lit(1, 4)) =>
        /\ AfterAtmos => atmospheric = <<255, 255, 255>>
        /\ pc = "done" =>
              \A i \in 1 .. 16 : \A c \in 1 .. 3 :
                  image.px[i] = Gray => output[3 * (i - 1) + c] < 100

C10_Witness ==
    /\ image = CornerImage(1, 1) /\ patch_size = 3 /\ pc = "done"
    /\ atmospheric = <<255, 255, 255>>
    /\ output[1] < 100

\* round(n * f), halves upward, in exact arithmetic.
ExactRoundMul(n, f) ==
    IF f[2] = 0 \/ f[1] = 1 \/ -f[3] - 12 > 30 THEN 0
    ELSE LET sh == -f[3] - 12
             H  == ExactMul(n, f)[1]
         IN H \div Pow2(sh) + (IF H % Pow2(sh) >= Pow2(sh - 1) THEN 1 ELSE 0)

\* floor(n * f), or that plus one when n * f is within n * f / 2^20 of it.
FloorOrNextInteger(n, f) ==
    {ExactFloorMul(n, f)} \cup
        (IF NearNextInteger(n, f) THEN {ExactFloorMul(n, f) + 1} ELSE {})

\* Index a comes before index b (both 0-based) in the order by dark value
\* descending, equal values by index ascending.
DarkerLater(a, b) ==
    \/ dark_map[a + 1] > dark_map[b + 1]
    \/ dark_map[a + 1] = dark_map[b + 1] /\ a < b

\* c holds the first Len(c) indices of that order.
FirstInDarkOrder(c) ==
    /\ \A j \in 1 .. Len(c) : c[j] \in 0 .. Len(dark_map) - 1
    /\ \A j \in 1 .. Len(c) - 1 : DarkerLater(c[j], c[j + 1])
    /\ \A i \in 0 .. Len(dark_map) - 1 :
          (\A j \in 1 .. Len(c) : c[j] # i) =>
              \A j \in 1 .. Len(c) : DarkerLater(c[j], i)

\* C2 as stated: for a fraction in (0, 1] the candidate set has
\* round(N * topFraction) members, the first of the dark map's indices by
\* value descending, equal values by index ascending.
C2_CandidatesAreRoundedCount ==
    (pc = "transmission_map" /\ ValidFraction) =>
        /\ Len(brightest(dark_map, a_proportion))
              = ExactRoundMul(Len(dark_map), a_proportion)
        /\ FirstInDarkOrder(brightest(dark_map, a_proportion))

\* C2 amended: the candidate set has floor(N * topFraction) members (one
\* more when the product lies within N * topFraction / 2^20 below an
\* integer, the product being rounded to single precision before it is
\* truncated), the first of the dark map's indices by value descending,
\* equal values by index ascending.
C2_CandidatesAreTruncatedCount ==
    (pc = "transmission_map" /\ ValidFraction) =>
        /\ Len(brightest(dark_map, a_proportion))
              \in FloorOrNextInteger(Len(dark_map), a_proportion)
        /\ FirstInDarkOrder(brightest(dark_map, a_proportion))

C2_Witness ==
    /\ pc = "transmission_map" /\ a_proportion = F32Lit(1, 2)
    /\ dark_map = <<100, 255, 255>>
    /\ brightest(dark_map, a_proportion) = <<1>>

\* The candidates' pixels, in candidate order.
CandidatePixels ==
    [j \in 1 .. Len(brightest(dark_map, a_proportion)) |->
        image.px[brightest(dark_map, a_proportion)[j] + 1]]

\* C3: get_atmospheric returns the RGB of the first candidate whose
\* intensity max(R, G, B) is the greatest among the candidates; with no
\* candidate, or all of intensity 0, it returns (255, 255, 255), and with no
\* candidate it does not crash.
C3_FirstBrightestCandidate ==
    /\ (pc # "get_atmospheric" /\ Len(brightest(dark_map, a_proportion)) = 0)
          => pc = "transmission_map"
    /\ pc = "transmission_map" =>
          LET cp   == CandidatePixels
              best == SetMax({0} \cup {Max3(cp[j]) : j \in 1 .. Len(cp)})
          IN IF best = 0 THEN atmospheric = <<255, 255, 255>>
             ELSE LET j == SetMin({k \in 1 .. Len(cp) : Max3(cp[k]) = best})
                  IN atmospheric = <<cp[j][1], cp[j][2], cp[j][3]>>

C3_Witness ==
    /\ pc = "transmission_map"
    /\ Len(CandidatePixels) = 3
    /\ CandidatePixels[1] = Gray /\ CandidatePixels[2] = Red
    /\ CandidatePixels[3] = Tinted
    /\ atmospheric = <<200, 10, 10>>

ValidOmega == F32Lt(F32Zero, omega) /\ F32Lt(omega, F32One)

\* C4 as stated: for omega in (0, 1) the transmission map has the dark
\* map's length and entry i is 255 - floor(d_i * omega), within 0 .. 255.
C4_TransmissionIsExactFloor ==
    (pc = "reconstruct" /\ ValidOmega) =>
        /\ Len(t_map) = Len(dark_map)
        /\ \A i \in 1 .. Len(dark_map) :
              /\ t_map[i] = 255 - ExactFloorMul(dark_map[i], omega)
              /\ t_map[i] \in 0 .. 255

\* C4 amended: entry i is 255 - floor(d_i * omega), or one less when
\* d_i * omega lies within d_i * omega / 2^20 below an integer (the product
\* is rounded to single precision before it is truncated); it lies in
\* 0 .. 255 and equal dark values give equal entries.
C4_TransmissionIsFloorOfRoundedProduct ==
    (pc = "reconstruct" /\ ValidOmega) =>
        /\ Len(t_map) = Len(dark_map)
        /\ \A i \in 1 .. Len(dark_map) :
              /\ 255 - t_map[i] \in FloorOrNextInteger(dark_map[i], omega)
              /\ t_map[i] \in 0 .. 255
              /\ \A j \in 1 .. Len(dark_map) :
                    dark_map[i] = dark_map[j] => t_map[i] = t_map[j]

C4_Witness ==
    /\ pc = "reconstruct" /\ omega = OMEGA
    /\ dark_map = <<100>> /\ t_map = <<160>>
    /\ ExactFloorMul(100, OMEGA) = 94

\* The exact value of 255 * ((u/255 - a/255) / t + a/255), t the greater of
\* tb/255 and the floor t0 = m * 2^(-s) in (0, 1), as [floor, rem, den]: the
\* value is floor + rem/den with 0 <= rem < den.
ExactRadiance(u, a, tb, t0) ==
    LET m    == t0[2]
        s    == -t0[3]
        useT == F32DivBits(0, tb, m, s)[1] >= 255
        mag  == IF u >= a THEN u - a ELSE a - u
        qr   == IF useT THEN <<(mag * 255) \div tb, (mag * 255) % tb>>
                        ELSE F32DivBits(0, mag, m, s)
        den  == IF useT THEN tb ELSE m
    IN IF u >= a THEN [floor |-> a + qr[1], rem |-> qr[2], den |-> den]
       ELSE IF qr[2] = 0 THEN [floor |-> a - qr[1], rem |-> 0, den |-> den]
       ELSE [floor |-> a - qr[1] - 1, rem |-> den - qr[2], den |-> den]

\* round(255 * clamp(J, 0, 1)) of that value, halves upward.
ExactChannel(u, a, tb, t0) ==
    LET v == ExactRadiance(u, a, tb, t0)
    IN IF v.floor < 0 THEN 0
       ELSE IF v.floor >= 255 THEN 255
       ELSE v.floor + (IF 2 * v.rem >= v.den THEN 1 ELSE 0)

\* The same, or either neighbouring integer when the value lies within
\* 1/2048 of the half-way point between them.
NearestChannels(u, a, tb, t0) ==
    LET v    == ExactRadiance(u, a, tb, t0)
        dist == IF 2 * v.rem >= v.den THEN 2 * v.rem - v.den
                                      ELSE v.den - 2 * v.rem
    IN IF v.floor >= 0 /\ v.floor < 255 /\ dist <= v.den \div 1024
       THEN {v.floor, v.floor + 1}
       ELSE {ExactChannel(u, a, tb, t0)}

ValidFloor == F32Lt(F32Zero, t_0) /\ F32Lt(t_0, F32One)

Magnitude(n) == IF n >= 0 THEN n ELSE 0 - n

\* C9: for a floor t0' >= t_0, the transmission used for each pixel under
\* t0' is not below the one used under t_0, and for each pixel whose raw
\* transmission is below t_0 no output channel is further from the input's
\* under t0' than under t_0.
C9_HigherFloorStaysCloser ==
    (pc = "done" /\ ValidFloor) =>
        \A t1 \in { f \in Floors : ~F32Lt(f, t_0) } :
            \A i \in 1 .. NumPixels :
                /\ ~F32Lt(F32Max(floatify(t_map[i]), t1),
                          F32Max(floatify(t_map[i]), t_0))
                /\ F32Lt(floatify(t_map[i]), t_0) =>
                      \A c \in 1 .. 3 :
                          Magnitude(ReconstructChannel(image.px[i][c], atmospheric[c],
                                                       t_map[i], t1) - image.px[i][c])
                              <= Magnitude(output[3 * (i - 1) + c] - image.px[i][c])

C9_Witness ==
    /\ pc = "done" /\ t_0 = T_0 /\ NumPixels >= 1
    /\ t_map[1] = 0 /\ image.px[1] = Dim /\ atmospheric = <<0, 150, 200>>
    /\ output[1] = 10
    /\ ReconstructChannel(1, 0, 0, F32Lit(1, 2)) = 2

=============================================================================
